---- MODULE Spec2Model ----
(***************************************************************************)
(* Model of quantum_solver.py: the synthetic metric model, the scoring     *)
(* function, generate_scenarios (random spray, annealed walk, assembly)    *)
(* and pareto_front.                                                       *)
(*                                                                         *)
(* Real-valued quantities (Python floats) are fixed-point integers in      *)
(* units of 1/FP.  The seeded random source random.Random(seed) is a       *)
(* deterministic generator whose whole stream is a function of the seed;   *)
(* the calls the model explores are the elements of Calls.                 *)
(***************************************************************************)
EXTENDS Integers, Sequences, FiniteSets, TLC

VARIABLES
    pc,             \* position of the call: start, spray, anneal, done, raised
    target_total,   \* argument
    n,              \* argument (sample count)
    seed,           \* argument
    params,         \* the nine remaining arguments, fixed-point where float
    rng,            \* state of the random source
    guess,          \* <<ft, pt, ct>> of lines 86-88
    steps,          \* line 93
    i,              \* loop counter of the running loop
    rows,           \* line 108
    current,        \* metrics record of the walk's state
    current_energy, \* its score
    cand,           \* last candidate evaluated by the walk
    cand_energy,    \* its score
    accept,         \* last accept/reject decision
    energy_trace,   \* line 94
    df,             \* the returned population
    best,           \* the returned best row
    error,          \* exception raised by the call, "" when none
    calls,          \* number of invocations started
    first,          \* what the previous invocation returned
    pf_df,          \* pareto_front: argument df
    pf_cols,        \* pareto_front: <<minimize_cols, maximize_cols>>
    pf_out          \* pareto_front: returned rows

vars == <<pc, target_total, n, seed, params, rng, guess, steps, i, rows,
          current, current_energy, cand, cand_energy, accept, energy_trace,
          df, best, error, calls, first, pf_df, pf_cols, pf_out>>

(***************************************************************************)
(* Bounds of the explored inputs.                                          *)
(***************************************************************************)
MaxSeed == 2
MaxTarget == 2
MaxCalls == 2
MaxParetoRows == 3

(***************************************************************************)
(* Fixed-point arithmetic standing for Python floats.                      *)
(***************************************************************************)
FP == 1000

Max(a, b) == IF a >= b THEN a ELSE b
Min(a, b) == IF a <= b THEN a ELSE b
Abs(a) == IF a >= 0 THEN a ELSE -a

\* the literal num/den
Lit(num, den) == (num * FP) \div den

\* floor(a * b / FP), split so that no intermediate exceeds 32 bits
Mul(a, b) == (a \div FP) * b + ((a % FP) * b) \div FP

\* floor(a / b) for fixed-point a and b > 0
Div(a, b) == (a \div b) * FP + ((a % b) * FP) \div b

\* int(x) of a quotient a/b, b > 0: truncation toward zero
TruncDiv(a, b) == IF a >= 0 THEN a \div b ELSE -((-a) \div b)

\* the smallest power of two above k, from p
RECURSIVE PowerAbove(_, _)
PowerAbove(k, p) == IF p > k THEN p ELSE PowerAbove(k, 2 * p)

\* int(x * 0.35) in double precision: 0.35 is stored just below 35/100, so
\* when 35x/100 is an integer k in the upper eighth of its binade the
\* product rounds to the double below k and int() yields k - 1
IntTimes035(x) ==
    LET k == TruncDiv(35 * x, 100)
    IN  IF x > 0 /\ (35 * x) % 100 = 0 /\ 8 * k > 7 * PowerAbove(k, 1)
        THEN k - 1
        ELSE k

\* int(x * 0.50): 0.5 is exact in double precision
IntTimes050(x) == TruncDiv(50 * x, 100)

(***************************************************************************)
(* _clamp_int, _compute_metrics, _score                                    *)
(***************************************************************************)
\* faulty variant: no clamping
Unclamped(x, lo, hi) == x

_clamp_int(x, lo, hi) == Max(lo, Min(hi, x))

_compute_metrics(ft, pt, ct, tt, p) ==
    LET fte == ft * FP + (pt * FP) \div 2 + ct * FP
        effective_target == tt * (FP + (p.growth_pct * FP) \div 100)
        base_cost == ft * p.cost_full_time + pt * p.cost_part_time
                     + ct * p.cost_contractor
        \* 0.000004 * (ft+pt+ct)^2 * base_cost, in dollars
        overhead == ((base_cost \div 1000) * 4 * (ft + pt + ct) * (ft + pt + ct))
                    \div 1000
        cost == base_cost + overhead
        contractor_ratio == Div(ct * FP, Max(1, ft + pt + ct) * FP)
        risk == Mul(Mul(p.risk_factor,
                        Lit(65, 100) + Mul(Lit(135, 100), contractor_ratio)),
                    Lit(12, 10) - Mul(Lit(7, 10), p.policy_strictness))
        ft_ratio == Div(ft * FP, Max(1, ft + pt + ct) * FP)
        retention == Mul(Mul(Lit(7, 10) + Mul(Lit(16, 10), p.benefit_richness),
                             Lit(65, 100) + Mul(Lit(9, 10), ft_ratio)),
                         FP - Mul(Lit(55, 100), contractor_ratio))
        fte_gap == Abs(fte - effective_target)
        penalty == Mul(Mul(fte_gap, fte_gap), Lit(6, 100))
    IN  [ft |-> ft, pt |-> pt, ct |-> ct,
         fte |-> fte,
         effective_target |-> effective_target,
         cost |-> cost,
         risk |-> risk,
         retention |-> retention,
         penalty |-> penalty]

_score(m, w_cost, w_risk, w_ret) ==
    LET cost_scaled == ((m.cost \div 1000) * FP) \div 1000
    IN  Mul(w_cost, cost_scaled) + Mul(w_risk, m.risk) - Mul(w_ret, m.retention)
        + m.penalty \div 100

\* {**m, "score": sc}
WithScore(m, sc) ==
    [ft |-> m.ft, pt |-> m.pt, ct |-> m.ct, fte |-> m.fte,
     effective_target |-> m.effective_target, cost |-> m.cost,
     risk |-> m.risk, retention |-> m.retention, penalty |-> m.penalty,
     score |-> sc]

Energy(m, p) == _score(m, p.w_cost, p.w_risk, p.w_ret)

(***************************************************************************)
(* The random source: random.Random(seed), randint, random.                *)
(***************************************************************************)
Modulus == 65537

\* faulty variant: a source shared by all invocations, never reseeded
SharedRandom(s) == rng

Random(s) == s % Modulus

Advance(r) == (r * 75 + 74) % Modulus

\* rng.randint(a, b), a <= b: the value drawn from state r
RandintValue(r, a, b) == a + (Advance(r) % (b - a + 1))

\* rng.random(): a value in [0, 1)
RandomValue(r) == Advance(r) % FP

(***************************************************************************)
(* The calls explored: the dashboard's default parameters (app.py) and a   *)
(* configuration with every weight zero, over a grid of small targets and  *)
(* seeds, plus sample counts that exercise the step-count formula and a    *)
(* target large enough for the population to be truncated.                 *)
(***************************************************************************)
DefaultParams ==
    [growth_pct |-> 10,
     cost_full_time |-> 98000, cost_part_time |-> 52000,
     cost_contractor |-> 125000,
     benefit_richness |-> Lit(55, 100), policy_strictness |-> Lit(60, 100),
     risk_factor |-> Lit(1, 1),
     w_cost |-> Lit(1, 1), w_risk |-> Lit(12, 10), w_ret |-> Lit(1, 1)]

ZeroWeights ==
    [DefaultParams EXCEPT !.w_cost = 0, !.w_risk = 0, !.w_ret = 0]

Call(tt, sc, sd, p) == [target_total |-> tt, n |-> sc, seed |-> sd, params |-> p]

Calls ==
    {Call(tt, 300, sd, DefaultParams) : tt \in -1..MaxTarget, sd \in 1..MaxSeed}
    \cup {Call(0, 300, 1, ZeroWeights), Call(-2, 300, 1, ZeroWeights)}
    \cup {Call(1, sc, 2026, DefaultParams) : sc \in {1151, 1300}}
    \cup {Call(10, 600, 2026, ZeroWeights)}

NoMetrics == [ft |-> 0, pt |-> 0, ct |-> 0, fte |-> 0, effective_target |-> 0,
              cost |-> 0, risk |-> 0, retention |-> 0, penalty |-> 0]

NoRow == [ft |-> 0, pt |-> 0, ct |-> 0, fte |-> 0, effective_target |-> 0,
          cost |-> 0, risk |-> 0, retention |-> 0, penalty |-> 0, score |-> 0]

NoResult == [df |-> <<>>, best |-> NoRow, energy_trace |-> <<>>]

Idle ==
    /\ pc = "start"
    /\ rng = 0
    /\ guess = <<0, 0, 0>>
    /\ steps = 0
    /\ i = 0
    /\ rows = <<>>
    /\ current = NoMetrics
    /\ current_energy = 0
    /\ cand = NoMetrics
    /\ cand_energy = 0
    /\ accept = FALSE
    /\ energy_trace = <<>>
    /\ df = <<>>
    /\ best = NoRow
    /\ error = ""
    /\ calls = 0
    /\ first = NoResult

Init ==
    /\ \E c \in Calls :
          /\ target_total = c.target_total
          /\ n = c.n
          /\ seed = c.seed
          /\ params = c.params
    /\ Idle
    /\ pf_df = <<>>
    /\ pf_cols = <<<<>>, <<>>>>
    /\ pf_out = <<>>

(***************************************************************************)
(* generate_scenarios                                                      *)
(***************************************************************************)
\* round(x * 0.35): nearest integer, ties to even
RoundTimes035(x) ==
    LET q == (35 * x) \div 100
        r == (35 * x) % 100
    IN  IF r > 50 \/ (r = 50 /\ q % 2 = 1) THEN q + 1 ELSE q

\* faulty variant: the step count rounded to nearest
StepCountRounded(sc) == Max(400, RoundTimes035(sc))

\* lines 93 and 111
StepCount(sc) == Max(400, IntTimes035(sc))

SprayCount(sc) == Max(200, IntTimes050(sc))

\* lines 86-88
InitialGuess(tt) ==
    <<TruncDiv(60 * tt, 100), TruncDiv(25 * tt, 100),
      Max(0, TruncDiv(15 * tt, 100))>>

\* lines 83-108: the source is created from the seed inside the call
Enter ==
    /\ pc = "start"
    /\ rng' = Random(seed)
    /\ guess' = InitialGuess(target_total)
    /\ steps' = StepCount(n)
    /\ energy_trace' = <<>>
    /\ rows' = <<>>
    /\ i' = 0
    /\ calls' = calls + 1
    /\ pc' = "spray"
    /\ UNCHANGED <<target_total, n, seed, params, current, current_energy,
                   cand, cand_energy, accept, df, best, error, first,
                   pf_df, pf_cols, pf_out>>

\* lines 111-122, one iteration
Spray ==
    /\ pc = "spray"
    /\ i < SprayCount(n)
    /\ target_total * 2 >= 0
    /\ LET r1 == Advance(rng)
           r2 == Advance(r1)
           r3 == Advance(r2)
           r_ft == RandintValue(rng, 0, target_total * 2)
           r_pt == RandintValue(r1, 0, target_total * 2)
           r_ct == RandintValue(r2, 0, target_total * 2)
           m == _compute_metrics(r_ft, r_pt, r_ct, target_total, params)
           sc == Energy(m, params)
       IN  /\ rng' = r3
           /\ rows' = Append(rows, WithScore(m, sc))
    /\ i' = i + 1
    /\ UNCHANGED <<pc, target_total, n, seed, params, guess, steps, current,
                   current_energy, cand, cand_energy, accept, energy_trace,
                   df, best, error, calls, first, pf_df, pf_cols, pf_out>>

\* line 112 with target_total * 2 < 0: randint raises ValueError
SprayRaise ==
    /\ pc = "spray"
    /\ i < SprayCount(n)
    /\ target_total * 2 < 0
    /\ error' = "ValueError"
    /\ pc' = "raised"
    /\ UNCHANGED <<target_total, n, seed, params, rng, guess, steps, i, rows,
                   current, current_energy, cand, cand_energy, accept,
                   energy_trace, df, best, calls, first, pf_df, pf_cols,
                   pf_out>>

\* lines 125-131
BeginAnneal ==
    /\ pc = "spray"
    /\ i = SprayCount(n)
    /\ current' = _compute_metrics(guess[1], guess[2], guess[3],
                                   target_total, params)
    /\ current_energy' = Energy(current', params)
    /\ i' = 0
    /\ pc' = "anneal"
    /\ UNCHANGED <<target_total, n, seed, params, rng, guess, steps, rows,
                   cand, cand_energy, accept, energy_trace, df, best, error,
                   calls, first, pf_df, pf_cols, pf_out>>

\* math.exp(-x) for fixed-point x >= 0: (1 - y + y^2/2)^16 with y = x/16
ExpNeg(x) ==
    IF x = 0 THEN FP
    ELSE IF x >= 16 * FP THEN 0
    ELSE LET y == x \div 16
             b == FP - y + Mul(y, y) \div 2
             b2 == Mul(b, b)
             b4 == Mul(b2, b2)
             b8 == Mul(b4, b4)
         IN  Mul(b8, b8)

\* line 135
Temperature(k, total) ==
    Max(Lit(5, 100), Mul(Lit(2, 1), FP - Div(k * FP, total * FP)))

\* lines 96-105: the neighbour proposed from state r of the source
propose(r, ft, pt, ct, tt) ==
    LET delta_ft == RandintValue(r, -6, 6)
        delta_pt == RandintValue(Advance(r), -10, 10)
        delta_ct == RandintValue(Advance(Advance(r)), -6, 6)
    IN  <<_clamp_int(ft + delta_ft, 0, tt * 3),
          _clamp_int(pt + delta_pt, 0, tt * 3),
          _clamp_int(ct + delta_ct, 0, tt * 3)>>

\* faulty variant: comparison inverted
AcceptsInverted(r, ce, cur, T) ==
    IF ce > cur
    THEN TRUE
    ELSE RandomValue(r) < ExpNeg(Div(cur - ce, Max(Lit(1, 1000000000), T)))

\* lines 145-152: the decision, given the state of the source after propose
Accepts(r, ce, cur, T) ==
    IF ce < cur
    THEN TRUE
    ELSE RandomValue(r) < ExpNeg(Div(ce - cur, Max(Lit(1, 1000000000), T)))

\* lines 133-158, one iteration
AnnealStep ==
    /\ pc = "anneal"
    /\ i < steps
    /\ LET T == Temperature(i, steps)
           p == propose(rng, current.ft, current.pt, current.ct, target_total)
           r3 == Advance(Advance(Advance(rng)))
           c == _compute_metrics(p[1], p[2], p[3], target_total, params)
           ce == Energy(c, params)
           a == Accepts(r3, ce, current_energy, T)
       IN  /\ cand' = c
           /\ cand_energy' = ce
           /\ accept' = a
           /\ rng' = IF ce < current_energy THEN r3 ELSE Advance(r3)
           /\ current' = IF a THEN c ELSE current
           /\ current_energy' = IF a THEN ce ELSE current_energy
    /\ energy_trace' = Append(energy_trace, current_energy')
    /\ rows' = Append(rows, WithScore(current', current_energy'))
    /\ i' = i + 1
    /\ UNCHANGED <<pc, target_total, n, seed, params, guess, steps, df, best,
                   error, calls, first, pf_df, pf_cols, pf_out>>

\* faulty variant: no deduplication
KeepAll(rs) == rs

\* drop_duplicates(subset=["ft","pt","ct"]): the first occurrence is kept
Key(row) == <<row.ft, row.pt, row.ct>>

drop_duplicates(rs) ==
    LET idx == [k \in 1..Len(rs) |-> k]
        FirstOccurrence(k) == \A j \in 1..(k - 1) : Key(rs[j]) # Key(rs[k])
        keep == SelectSeq(idx, FirstOccurrence)
    IN  [k \in 1..Len(keep) |-> rs[keep[k]]]

\* faulty variant: descending order
ScoreAfter(a, b) == a.score > b.score

\* faulty variant: no sort
Unsorted(rs) == rs

\* faulty variant: no truncation
WholeFrame(rs, k) == rs

\* sort_values("score"): ascending
ScoreBefore(a, b) == a.score < b.score

sort_values(rs) == SortSeq(rs, ScoreBefore)

\* head(k)
head(rs, k) == SubSeq(rs, 1, Min(k, Len(rs)))

\* lines 161-162
Population(rs, sc) == head(sort_values(drop_duplicates(rs)), Max(sc, 600))

\* lines 160-165
Assemble ==
    /\ pc = "anneal"
    /\ i = steps
    /\ df' = Population(rows, n)
    /\ best' = df'[1]
    /\ pc' = "done"
    /\ UNCHANGED <<target_total, n, seed, params, rng, guess, steps, i, rows,
                   current, current_energy, cand, cand_energy, accept,
                   energy_trace, error, calls, first, pf_df, pf_cols, pf_out>>

Next == Enter \/ Spray \/ SprayRaise \/ BeginAnneal \/ AnnealStep \/ Assemble

Spec == Init /\ [][Next]_vars

(***************************************************************************)
(* A caller that invokes generate_scenarios again with the same arguments  *)
(* (app.py runs one call per recompute), keeping what the previous         *)
(* invocation returned.                                                    *)
(***************************************************************************)
Returned == [df |-> df, best |-> best, energy_trace |-> energy_trace]

Reinvoke ==
    /\ pc = "done"
    /\ calls < MaxCalls
    /\ first' = Returned
    /\ pc' = "start"
    /\ UNCHANGED <<target_total, n, seed, params, rng, guess, steps, i, rows,
                   current, current_energy, cand, cand_energy, accept,
                   energy_trace, df, best, error, calls, pf_df, pf_cols,
                   pf_out>>

RepeatCalls ==
    {Call(tt, 300, sd, DefaultParams) : tt \in -1..MaxTarget, sd \in 1..MaxSeed}

InitRepeat ==
    /\ \E c \in RepeatCalls :
          /\ target_total = c.target_total
          /\ n = c.n
          /\ seed = c.seed
          /\ params = c.params
    /\ Idle
    /\ pf_df = <<>>
    /\ pf_cols = <<<<>>, <<>>>>
    /\ pf_out = <<>>

NextRepeat ==
    Enter \/ Spray \/ SprayRaise \/ BeginAnneal \/ AnnealStep \/ Assemble
    \/ Reinvoke

SpecRepeat == InitRepeat /\ [][NextRepeat]_vars

(***************************************************************************)
(* pareto_front                                                            *)
(***************************************************************************)
Range(f) == {f[k] : k \in DOMAIN f}

\* lines 172-174: the maximize columns negated
Negate(row, maximize_cols) ==
    [c \in DOMAIN row |-> IF c \in Range(maximize_cols) THEN -row[c] ELSE row[c]]

\* line 178: work[minimize_cols + maximize_cols].values
Values(work, cols) ==
    [k \in 1..Len(work) |-> [c \in 1..Len(cols) |-> work[k][cols[c]]]]

\* faulty variant: domination without the strict component
WeaklyDominates(vj, vi) == \A c \in DOMAIN vi : vj[c] <= vi[c]

\* line 185: (vals[j] <= vals[i]).all() and (vals[j] < vals[i]).any()
Dominates(vj, vi) ==
    /\ \A c \in DOMAIN vi : vj[c] <= vi[c]
    /\ \E c \in DOMAIN vi : vj[c] < vi[c]

\* lines 167-190
pareto_front(d, minimize_cols, maximize_cols) ==
    LET work == [k \in 1..Len(d) |-> Negate(d[k], maximize_cols)]
        vals == Values(work, minimize_cols \o maximize_cols)
        NotDominated(k) ==
            ~ \E j \in 1..Len(work) : j # k /\ Dominates(vals[j], vals[k])
        idxs == SelectSeq([k \in 1..Len(work) |-> k], NotDominated)
    IN  [k \in 1..Len(idxs) |-> d[idxs[k]]]

ParetoRow(c, r, t) == [cost |-> c, risk |-> r, retention |-> t]

\* A(10,1,5), B(12,0.5,5), C(10,1,5), D(15,2,3), risk in halves
ExamplePopulation ==
    <<ParetoRow(10, 2, 5), ParetoRow(12, 1, 5), ParetoRow(10, 2, 5),
      ParetoRow(15, 4, 3)>>

RECURSIVE SeqsUpTo(_, _)
SeqsUpTo(S, len) ==
    IF len = 0 THEN {<<>>}
    ELSE LET shorter == SeqsUpTo(S, len - 1)
         IN  shorter \cup {Append(q, x) : q \in shorter, x \in S}

ParetoInputs ==
    SeqsUpTo({ParetoRow(c, r, t) : c \in {0, 1}, r \in {0, 1}, t \in {0, 1}},
             MaxParetoRows)
    \cup {ExamplePopulation}

\* app.py calls it with minimize cost, risk and maximize retention
ParetoColumns ==
    {<<<<"cost", "risk">>, <<"retention">>>>,
     <<<<"cost", "risk", "retention">>, <<>>>>,
     <<<<>>, <<"retention", "cost">>>>}

InitPareto ==
    /\ target_total = 0
    /\ n = 0
    /\ seed = 0
    /\ params = DefaultParams
    /\ rng = 0
    /\ guess = <<0, 0, 0>>
    /\ steps = 0
    /\ i = 0
    /\ rows = <<>>
    /\ current = NoMetrics
    /\ current_energy = 0
    /\ cand = NoMetrics
    /\ cand_energy = 0
    /\ accept = FALSE
    /\ energy_trace = <<>>
    /\ df = <<>>
    /\ best = NoRow
    /\ error = ""
    /\ calls = 0
    /\ first = NoResult
    /\ pc = "pareto"
    /\ pf_df \in ParetoInputs
    /\ pf_cols \in ParetoColumns
    /\ pf_out = <<>>

ParetoFront ==
    /\ pc = "pareto"
    /\ pf_out' = pareto_front(pf_df, pf_cols[1], pf_cols[2])
    /\ pc' = "pareto_done"
    /\ UNCHANGED <<target_total, n, seed, params, rng, guess, steps, i, rows,
                   current, current_energy, cand, cand_energy, accept,
                   energy_trace, df, best, error, calls, first, pf_df,
                   pf_cols>>

NextPareto == ParetoFront

SpecPareto == InitPareto /\ [][NextPareto]_vars

(***************************************************************************)
(* Properties                                                              *)
(***************************************************************************)
InRange(m, hi) == m.ft \in 0..hi /\ m.pt \in 0..hi /\ m.ct \in 0..hi

HasDuplicateKey(rs) ==
    \E a, b \in 1..Len(rs) : a < b /\ Key(rs[a]) = Key(rs[b])

\* the energy and the mix the walk held before its i-th decision
EnergyBefore ==
    IF i = 1
    THEN Energy(_compute_metrics(guess[1], guess[2], guess[3],
                                 target_total, params), params)
    ELSE energy_trace[i - 1]

MixBefore == IF i = 1 THEN guess ELSE Key(rows[Len(rows) - 1])

Walking == pc \in {"anneal", "done"} /\ i > 0

\* C1: when generate_scenarios returns, no two rows of the population have
\* the same (ft, pt, ct).
C1_UniqueMixes ==
    pc = "done" =>
        \A a, b \in 1..Len(df) : a < b => Key(df[a]) # Key(df[b])

\* a return whose working rows repeated a mix
C1_Witness ==
    pc = "done" /\ Len(df) > 1 /\ HasDuplicateKey(rows)

\* C2: the returned population is non-decreasing in score, best is its first
\* row and best.score is the minimum score of the population.
C2_SortedBestFirst ==
    pc = "done" =>
        /\ \A k \in 1..(Len(df) - 1) : df[k].score <= df[k + 1].score
        /\ best = df[1]
        /\ \A k \in 1..Len(df) : best.score <= df[k].score

\* a return whose rows were generated out of score order
C2_Witness ==
    /\ pc = "done"
    /\ Len(df) > 1
    /\ df[1].score < df[Len(df)].score
    /\ \E k \in 1..(Len(rows) - 1) : rows[k].score > rows[k + 1].score

\* C3 as stated: the energy trace has max(400, round(0.35 * n)) entries.
C3_TraceLengthRounded ==
    pc = "done" => Len(energy_trace) = Max(400, RoundTimes035(n))

\* C3 as amended: the energy trace has max(400, int(n * 0.35)) entries, one
\* per annealing step, the product truncated toward zero.
C3_TraceLengthTruncated ==
    /\ pc = "done" => Len(energy_trace) = Max(400, IntTimes035(n))
    /\ pc \in {"anneal", "done"} => Len(energy_trace) = i

\* a return where truncation and rounding of 0.35 * n differ
C3_Witness ==
    /\ pc = "done"
    /\ RoundTimes035(n) > 400
    /\ IntTimes035(n) # RoundTimes035(n)
    /\ Len(energy_trace) = IntTimes035(n)

\* C4: a second invocation with the same arguments returns the same
\* population, best row and energy trace as the one before it.
C4_SameResult ==
    (pc = "done" /\ calls > 1) => Returned = first

\* a second return of a population of several rows
C4_Witness ==
    pc = "done" /\ calls > 1 /\ Len(df) > 1 /\ Len(first.df) > 1

\* C5: pareto_front returns, in input order, exactly the rows that no other
\* row beats or ties on every key (lower on a minimize key, higher on a
\* maximize key) while beating it on at least one; equal rows never remove
\* each other, and the example population yields A, B, C.
Beats(rj, ri) ==
    /\ \A c \in Range(pf_cols[1]) : rj[c] <= ri[c]
    /\ \A c \in Range(pf_cols[2]) : rj[c] >= ri[c]
    /\ \/ \E c \in Range(pf_cols[1]) : rj[c] < ri[c]
       \/ \E c \in Range(pf_cols[2]) : rj[c] > ri[c]

Survivors ==
    {k \in 1..Len(pf_df) :
        \A j \in 1..Len(pf_df) : j = k \/ ~ Beats(pf_df[j], pf_df[k])}

C5_ParetoExact ==
    pc = "pareto_done" =>
        /\ Len(pf_out) = Cardinality(Survivors)
        /\ \A k \in Survivors :
              pf_out[Cardinality({j \in Survivors : j <= k})] = pf_df[k]
        /\ (pf_df = ExamplePopulation /\ pf_cols = <<<<"cost", "risk">>, <<"retention">>>>)
              => pf_out = <<ExamplePopulation[1], ExamplePopulation[2],
                            ExamplePopulation[3]>>

\* a duplicated row kept twice while a third row is removed
C5_Witness ==
    /\ pc = "pareto_done"
    /\ Len(pf_out) < Len(pf_df)
    /\ \E a, b \in 1..Len(pf_out) : a < b /\ pf_out[a] = pf_out[b]

\* C6: generate_scenarios never raises, whatever target_total is.
C6_NeverRaises == error = ""

\* C7: for n >= 300 the returned population has at least 1 and at most
\* max(n, 600) rows.
C7_PopulationSize ==
    (pc = "done" /\ n >= 300) => (Len(df) >= 1 /\ Len(df) <= Max(n, 600))

\* a return whose deduplicated rows exceeded the limit
C7_Witness ==
    /\ pc = "done"
    /\ n >= 300
    /\ Len(drop_duplicates(rows)) > Max(n, 600)
    /\ Len(df) = Max(n, 600)

\* C8: after every annealing step the last trace entry and the last row are
\* the walk's current state: the candidate's on acceptance, the unchanged
\* previous state's on rejection; a candidate strictly below the previous
\* energy is always accepted.
C8_TraceIsCurrentState ==
    Walking =>
        /\ energy_trace[i] = current_energy
        /\ rows[Len(rows)] = WithScore(current, current_energy)
        /\ accept => (current = cand /\ current_energy = cand_energy)
        /\ ~ accept => (current_energy = EnergyBefore /\ Key(current) = MixBefore)
        /\ cand_energy < EnergyBefore => accept

\* the walk has accepted an uphill move, so the trace is above its earlier
\* minimum, and has just rejected a candidate
C8_Witness ==
    /\ Walking
    /\ ~ accept
    /\ cand_energy > current_energy
    /\ \E k \in 1..(i - 1) : energy_trace[k] < energy_trace[i]

\* C9: for target_total >= 0 the walk's current state and every candidate
\* have each coordinate in [0, 3 * target_total], every phase-1 sample in
\* [0, 2 * target_total], and so has every row of the returned population
\* in [0, 3 * target_total].
C9_CoordinatesBounded ==
    target_total >= 0 =>
        /\ \A k \in 1..Len(rows) :
              InRange(rows[k], IF pc = "spray" \/ k <= SprayCount(n)
                               THEN 2 * target_total ELSE 3 * target_total)
        /\ pc \in {"anneal", "done"} => InRange(current, 3 * target_total)
        /\ Walking => InRange(cand, 3 * target_total)
        /\ pc = "done" => \A k \in 1..Len(df) : InRange(df[k], 3 * target_total)

\* the walk proposed a neighbour clamped at the upper bound and holds a
\* coordinate clamped at zero
C9_Witness ==
    /\ Walking
    /\ target_total > 0
    /\ 3 * target_total \in {cand.ft, cand.pt, cand.ct}
    /\ 0 \in {current.ft, current.pt, current.ct}

\* C10: best is the minimum of the whole run: rows with the same mix have the
\* same score, and best.score is at most the score of every generated row
\* and every entry of the energy trace.
C10_BestIsGlobalMinimum ==
    pc = "done" =>
        /\ \A a, b \in 1..Len(rows) :
              Key(rows[a]) = Key(rows[b]) => rows[a].score = rows[b].score
        /\ \A k \in 1..Len(rows) : best.score <= rows[k].score
        /\ \A k \in 1..Len(energy_trace) : best.score <= energy_trace[k]

\* a return where a phase-1 mix was found again by the walk, which started
\* above the minimum
C10_Witness ==
    /\ pc = "done"
    /\ \E a \in 1..SprayCount(n) : \E b \in (SprayCount(n) + 1)..Len(rows) :
          Key(rows[a]) = Key(rows[b])
    /\ best.score < energy_trace[1]

====
